---------------------------- MODULE Spec2Model ----------------------------
(***************************************************************************)
(* A model of l2rpn_baselines/utils/TrainingParam.py: the TrainingParam    *)
(* object (its attributes), its methods, and the json file it is saved to. *)
(*                                                                         *)
(* Numbers.  A Python number is a record [ty, n, d]: ty is "int" or        *)
(* "float" and n/d is its value as a fraction in lowest terms (d > 0).     *)
(* Arithmetic is exact (rational); the rounding of IEEE doubles is not     *)
(* modelled.  np.log and np.exp are kept exact as well: np.log(a/b) is the *)
(* record [ty |-> "log", n, d] standing for ln(n/d), and a value           *)
(* c * exp(x * ln r) = c * r^x with a non-integer x is the record          *)
(* [ty |-> "pow", ...]; c * exp(q) for a rational q # 0 is [ty |-> "exp"]. *)
(***************************************************************************)
EXTENDS Integers, FiniteSets, Sequences, TLC

VARIABLES
    self,      \* the attributes of the TrainingParam object in use
    res,       \* the outcome of the last call: [op, arg, val, err]
    fs,        \* the files of the save directory: file name -> content
    s_last,    \* history: [called, value]; value is the argument of the last
               \* tell_step / get_next_epsilon call on this object and, while
               \* there was none (called = FALSE), the last_step it was built
               \* with
    assigned   \* history: an epsilon attribute was assigned directly since
               \* the object was built

vars == <<self, res, fs, s_last, assigned>>

---------------------------------------------------------------------------
(* Bounds of the model.                                                    *)

\* tell_step and get_next_epsilon are called with steps 0..MaxStep
MaxStep == 3

Steps == 0..MaxStep

---------------------------------------------------------------------------
(* Python numbers.                                                         *)

Abs(k) == IF k < 0 THEN -k ELSE k

RECURSIVE GCD(_, _)
GCD(a, b) == IF b = 0 THEN a ELSE GCD(b, a % b)

\* the fraction n/d (d # 0) in lowest terms with a positive denominator
Frac(n, d) ==
    LET g == GCD(Abs(n), Abs(d))
        s == IF d < 0 THEN -1 ELSE 1
    IN  [n |-> (s * n) \div g, d |-> (s * d) \div g]

I(k) == [ty |-> "int", n |-> k, d |-> 1]

F(n, d) == [ty |-> "float", n |-> Frac(n, d).n, d |-> Frac(n, d).d]

\* a value that is no number and that int() and float() refuse: "abc"
NotANumber == [ty |-> "str", n |-> 0, d |-> 1]

NoneVal == [ty |-> "none", n |-> 0, d |-> 1]

PyTrue == [ty |-> "bool", n |-> 1, d |-> 1]

PyFalse == [ty |-> "bool", n |-> 0, d |-> 1]

PyBool(b) == IF b THEN PyTrue ELSE PyFalse

\* IEEE values np.log / np.exp produce outside the finite numbers
NaN == [ty |-> "nan", n |-> 0, d |-> 1]

PosInf == [ty |-> "inf", n |-> 1, d |-> 1]

NegInf == [ty |-> "inf", n |-> -1, d |-> 1]

IsNum(x) == x.ty \in {"int", "float"}

\* int(x): truncation towards zero
PyInt(x) ==
    [ty |-> "int",
     n  |-> IF x.n >= 0 THEN x.n \div x.d ELSE -((-x.n) \div x.d),
     d  |-> 1]

\* float(x): the same value as a float
PyFloat(x) == [ty |-> "float", n |-> x.n, d |-> x.d]

\* comparisons of two numbers by value (2 == 2.0 in Python)
NumEq(a, b) == a.n * b.d = b.n * a.d

NumLt(a, b) == a.n * b.d < b.n * a.d

NumLeq(a, b) == a.n * b.d <= b.n * a.d

\* a / b for b # 0: true division, always a float
PyDiv(a, b) == F(a.n * b.d, a.d * b.n)

\* a * b as a float
PyMul(a, b) == F(a.n * b.n, a.d * b.d)

PyNeg(a) == [a EXCEPT !.n = -a.n]

\* a % b == 0 for b # 0: a is a whole multiple of b
PyModIsZero(a, b) == (a.n * b.d) % Abs(a.d * b.n) = 0

\* np.log(x) of a finite float x
NpLog(x) ==
    IF x.n > 0 THEN [ty |-> "log", n |-> x.n, d |-> x.d]
    ELSE IF x.n = 0 THEN NegInf
    ELSE NaN

---------------------------------------------------------------------------
(* The class attributes _int_attr and _float_attr.                         *)

\* a faulty variant of _int_attr: last_step is not listed
IntAttrWithoutLastStep ==
    {"buffer_size", "minibatch_size", "step_for_final_epsilon",
     "min_observation", "num_frames", "update_freq",
     "min_iter", "max_iter", "update_tensorboard_freq", "save_model_each"}

_int_attr ==
    {"buffer_size", "minibatch_size", "step_for_final_epsilon",
     "min_observation", "last_step", "num_frames", "update_freq",
     "min_iter", "max_iter", "update_tensorboard_freq", "save_model_each"}

_float_attr ==
    {"final_epsilon", "initial_epsilon", "lr", "lr_decay_steps",
     "lr_decay_rate", "discount_factor", "tau"}

\* the keyword parameters of __init__
CtorParams ==
    {"buffer_size", "minibatch_size", "step_for_final_epsilon",
     "min_observation", "final_epsilon", "initial_epsilon", "lr",
     "lr_decay_steps", "lr_decay_rate", "num_frames", "discount_factor",
     "tau", "update_freq", "min_iter", "max_iter",
     "update_tensorboard_freq", "save_model_each"}

\* the default values of the keyword parameters of __init__
Defaults ==
    [buffer_size             |-> I(40000),
     minibatch_size          |-> I(64),
     step_for_final_epsilon  |-> I(100000),
     min_observation         |-> I(5000),
     final_epsilon           |-> F(1, 7 * 288),
     initial_epsilon         |-> F(4, 10),
     lr                      |-> F(1, 10000),
     lr_decay_steps          |-> I(10000),
     lr_decay_rate           |-> F(999, 1000),
     num_frames              |-> I(1),
     discount_factor         |-> F(99, 100),
     tau                     |-> F(1, 10),
     update_freq             |-> I(256),
     min_iter                |-> I(50),
     max_iter                |-> I(8064),
     update_tensorboard_freq |-> I(1000),
     save_model_each         |-> I(10000)]

\* the value __init__ receives for parameter p under keyword arguments kw
Arg(kw, p) == IF p \in DOMAIN kw THEN kw[p] ELSE Defaults[p]

---------------------------------------------------------------------------
(* __init__ and the decay coefficient.                                     *)

\* a faulty variant of ExpFacto: the ratio is taken the wrong way round
ExpFactoInverted(initial_epsilon, final_epsilon) ==
    IF final_epsilon.n > 0
    THEN NpLog(PyDiv(final_epsilon, initial_epsilon))
    ELSE I(1)

\* if final_epsilon > 0: np.log(initial_epsilon/final_epsilon) else: 1
ExpFacto(initial_epsilon, final_epsilon) ==
    IF final_epsilon.n > 0
    THEN NpLog(PyDiv(initial_epsilon, final_epsilon))
    ELSE I(1)

\* TrainingParam(**kw)
TrainingParam(kw) ==
    [buffer_size             |-> Arg(kw, "buffer_size"),
     minibatch_size          |-> Arg(kw, "minibatch_size"),
     min_observation         |-> Arg(kw, "min_observation"),
     final_epsilon           |-> PyFloat(Arg(kw, "final_epsilon")),
     initial_epsilon         |-> PyFloat(Arg(kw, "initial_epsilon")),
     step_for_final_epsilon  |-> PyFloat(Arg(kw, "step_for_final_epsilon")),
     lr                      |-> Arg(kw, "lr"),
     lr_decay_steps          |-> PyFloat(Arg(kw, "lr_decay_steps")),
     lr_decay_rate           |-> PyFloat(Arg(kw, "lr_decay_rate")),
     last_step               |-> I(0),
     num_frames              |-> PyInt(Arg(kw, "num_frames")),
     discount_factor         |-> PyFloat(Arg(kw, "discount_factor")),
     tau                     |-> PyFloat(Arg(kw, "tau")),
     update_freq             |-> Arg(kw, "update_freq"),
     min_iter                |-> Arg(kw, "min_iter"),
     max_iter                |-> Arg(kw, "max_iter"),
     _exp_facto              |-> ExpFacto(PyFloat(Arg(kw, "initial_epsilon")),
                                          PyFloat(Arg(kw, "final_epsilon"))),
     max_iter_fun            |-> "default_max_iter_fun",
     update_tensorboard_freq |-> Arg(kw, "update_tensorboard_freq"),
     save_model_each         |-> Arg(kw, "save_model_each")]

EmptyKw == [p \in {} |-> NoneVal]

---------------------------------------------------------------------------
(* get_next_epsilon.                                                       *)

\* initial_epsilon * np.exp(x) for the exponent x = -(q) * _exp_facto, where
\* q = current_step / step_for_final_epsilon is a finite float
ExpDecay(c, q, facto) ==
    CASE IsNum(facto) ->
            \* exp of the rational -(q * facto): 1 at 0, else kept symbolic
            LET x == PyNeg(PyMul(q, facto))
            IN  IF x.n = 0 THEN PyFloat(c)
                ELSE [ty |-> "exp", c |-> c, xn |-> x.n, xd |-> x.d]
      [] facto.ty = "log" ->
            \* c * exp(-q * ln(r)) = c * r^(-q), with r = facto.n / facto.d
            IF q.n = 0 THEN PyFloat(c)
            ELSE IF q.n = q.d THEN F(c.n * facto.d, c.d * facto.n)
            ELSE [ty |-> "pow", c |-> c, rn |-> facto.n, rd |-> facto.d,
                  xn |-> -q.n, xd |-> q.d]
      [] facto = NegInf ->
            \* -(q) * -inf is +inf, nan or -inf; exp of it inf, nan or 0
            IF q.n > 0
            THEN (IF c.n > 0 THEN PosInf ELSE IF c.n < 0 THEN NegInf ELSE NaN)
            ELSE IF q.n = 0 THEN NaN
            ELSE F(0, 1)
      [] OTHER -> NaN

\* a faulty variant of get_next_epsilon: the constant branch is missing
get_next_epsilon_always_decays(obj, current_step) ==
    IF obj.step_for_final_epsilon.n = 0
    THEN [val |-> NoneVal, err |-> "ZeroDivisionError"]
    ELSE [val |-> ExpDecay(obj.initial_epsilon,
                           PyDiv(current_step, obj.step_for_final_epsilon),
                           obj._exp_facto),
          err |-> "none"]

\* what get_next_epsilon(current_step) returns or raises on obj
get_next_epsilon(obj, current_step) ==
    IF NumLt(obj.step_for_final_epsilon, current_step)
    THEN [val |-> obj.final_epsilon, err |-> "none"]
    ELSE IF obj.step_for_final_epsilon.n = 0
    THEN [val |-> NoneVal, err |-> "ZeroDivisionError"]
    ELSE [val |-> ExpDecay(obj.initial_epsilon,
                           PyDiv(current_step, obj.step_for_final_epsilon),
                           obj._exp_facto),
          err |-> "none"]

---------------------------------------------------------------------------
(* to_dict and from_dict.                                                  *)

to_dict(obj) ==
    [k \in _int_attr \cup _float_attr |->
        IF k \in _int_attr THEN PyInt(obj[k]) ELSE PyFloat(obj[k])]

\* a faulty variant of from_dict_raises: every key of tmp is converted
from_dict_raises_on_any_key(tmp) ==
    \E k \in DOMAIN tmp : ~IsNum(tmp[k])

\* int(tmp[k]) or float(tmp[k]) raises ValueError for a key from_dict reads
from_dict_raises(tmp) ==
    \E k \in (_int_attr \cup _float_attr) \cap DOMAIN tmp : ~IsNum(tmp[k])

\* the object from_dict(tmp) returns when no conversion raises
from_dict(tmp) ==
    LET base == TrainingParam(EmptyKw)
        set  == [k \in DOMAIN base |->
                    IF k \in _int_attr /\ k \in DOMAIN tmp THEN PyInt(tmp[k])
                    ELSE IF k \in _float_attr /\ k \in DOMAIN tmp
                         THEN PyFloat(tmp[k])
                    ELSE base[k]]
    IN  [set EXCEPT !["_exp_facto"] =
            ExpFacto(set.initial_epsilon, set.final_epsilon)]

---------------------------------------------------------------------------
(* do_train.                                                               *)

\* a faulty variant of do_train: the operands of % are swapped
do_train_swapped(obj) ==
    IF obj.last_step.n = 0
    THEN [val |-> NoneVal, err |-> "ZeroDivisionError"]
    ELSE [val |-> PyBool(PyModIsZero(obj.update_freq, obj.last_step)),
          err |-> "none"]

\* self.last_step % self.update_freq == 0
do_train(obj) ==
    IF obj.update_freq.n = 0
    THEN [val |-> NoneVal, err |-> "ZeroDivisionError"]
    ELSE [val |-> PyBool(PyModIsZero(obj.last_step, obj.update_freq)),
          err |-> "none"]

---------------------------------------------------------------------------
(* The file system seen by save_as_json and from_json.                     *)

\* the directory arguments: a directory, a path where nothing exists, and
\* a path where a regular file (no directory, no json) is
Paths == {"out", "missing", "notes.txt"}

\* os.path.exists(path)
Exists(path) == path \in {"out", "notes.txt"}

\* os.path.isdir(path)
IsDir(path) == path = "out"

\* the file names used inside the directory "out"
DefaultName == "training_parameters.json"

FileNames == {DefaultName, "tp.json"}

\* the content of a file that does not exist
Absent == [ty |-> "absent", n |-> 0, d |-> 1]

\* json.dump(d, sort_keys=True, indent=4): an int is written as an integer
\* literal, a float as a literal with a fractional part or an exponent
JsonDump(d) ==
    [k \in DOMAIN d |->
        [ty |-> IF d[k].ty = "int" THEN "json_integer" ELSE "json_real",
         n |-> d[k].n, d |-> d[k].d]]

\* json.load: an integer literal becomes an int, any other number a float
JsonLoad(text) ==
    [k \in DOMAIN text |->
        [ty |-> IF text[k].ty = "json_integer" THEN "int" ELSE "float",
         n |-> text[k].n, d |-> text[k].d]]

\* a faulty variant of save_error: the os.path.isdir test is missing
save_error_without_isdir(path) ==
    IF ~Exists(path) THEN "RuntimeError" ELSE "none"

\* the error save_as_json(path, name) raises, "none" when it writes
save_error(path) ==
    IF ~Exists(path) THEN "RuntimeError"
    ELSE IF ~IsDir(path) THEN "NotADirectoryError"
    ELSE "none"

---------------------------------------------------------------------------
(* Inputs of the operations.                                               *)

\* values given for the epsilons
EpsValues == {I(0), F(1, 4), F(1, 2)}

\* values assigned to an epsilon attribute of an existing object
AssignedValues == {F(1, 4)}

\* values given for step_for_final_epsilon
StepForFinalValues == {I(0), I(2), F(5, 2)}

\* values given for update_freq
FreqValues == {I(0), I(2), I(3)}

\* values given for any other parameter: an int and a non-integer float
OtherValues == {I(3), F(5, 2)}

EpsParams ==
    {"initial_epsilon", "final_epsilon", "step_for_final_epsilon",
     "update_freq"}

\* the keyword arguments objects are constructed with
CtorInputs ==
    {EmptyKw}
    \cup { [initial_epsilon |-> i, final_epsilon |-> f,
            step_for_final_epsilon |-> s] :
           i \in EpsValues, f \in EpsValues, s \in StepForFinalValues }
    \cup { [update_freq |-> u] : u \in FreqValues }
    \cup { [q \in {p} |-> v] : p \in CtorParams \ EpsParams,
                               v \in OtherValues }

\* the mappings from_dict is called with (besides a mapping to_dict made)
FromDictInputs ==
    {EmptyKw}
    \cup { [q \in {"unknown_field"} |-> v] : v \in {I(5), NotANumber} }
    \cup { [q \in {k} |-> F(5, 2)] : k \in _int_attr \cup _float_attr }
    \cup { [q \in {k} |-> NotANumber] : k \in {"buffer_size", "tau"} }
    \cup { [last_step |-> I(3), update_freq |-> u, unknown_field |-> I(5)] :
           u \in {I(0), I(2)} }
    \cup { [initial_epsilon |-> F(1, 2), final_epsilon |-> f,
            step_for_final_epsilon |-> I(2)] : f \in {I(0), F(1, 4)} }

Result(op, arg, val, err) ==
    [op |-> op, arg |-> arg, val |-> val, err |-> err]

NoFiles == [f \in FileNames |-> Absent]

---------------------------------------------------------------------------
(* The operations.                                                         *)

\* obj = TrainingParam(**kw)
Init ==
    \E kw \in CtorInputs :
        /\ self = TrainingParam(kw)
        /\ res = Result("__init__", kw, NoneVal, "none")
        /\ fs = NoFiles
        /\ s_last = [called |-> FALSE, value |-> 0]
        /\ assigned = FALSE

\* self.tell_step(current_step)
TellStep ==
    \E s \in Steps :
        /\ self' = [self EXCEPT !.last_step = I(s)]
        /\ res' = Result("tell_step", I(s), NoneVal, "none")
        /\ s_last' = [called |-> TRUE, value |-> s]
        /\ UNCHANGED <<fs, assigned>>

\* self.get_next_epsilon(current_step); last_step is set before the
\* division can raise
GetNextEpsilon ==
    \E s \in Steps :
        LET r == get_next_epsilon(self, I(s))
        IN  /\ self' = [self EXCEPT !.last_step = I(s)]
            /\ res' = Result("get_next_epsilon", I(s), r.val, r.err)
            /\ s_last' = [called |-> TRUE, value |-> s]
            /\ UNCHANGED <<fs, assigned>>

\* self.do_train()
DoTrain ==
    LET r == do_train(self)
    IN  /\ res' = Result("do_train", NoneVal, r.val, r.err)
        /\ UNCHANGED <<self, fs, s_last, assigned>>

\* self.to_dict()
ToDict ==
    /\ res' = Result("to_dict", NoneVal, to_dict(self), "none")
    /\ UNCHANGED <<self, fs, s_last, assigned>>

\* the object in use becomes TrainingParam.from_dict(tmp), unless it raises
Load(op, tmp, src) ==
    IF from_dict_raises(tmp)
    THEN /\ res' = Result(op, [tmp |-> tmp, src |-> src], NoneVal,
                          "ValueError")
         /\ UNCHANGED <<self, s_last, assigned>>
    ELSE /\ self' = from_dict(tmp)
         /\ res' = Result(op, [tmp |-> tmp, src |-> src], NoneVal, "none")
         /\ s_last' = [called |-> FALSE,
                        value  |-> IF "last_step" \in DOMAIN tmp
                                   THEN PyInt(tmp["last_step"]).n ELSE 0]
         /\ assigned' = FALSE

\* self = TrainingParam.from_dict(tmp) for a given mapping tmp
FromDict ==
    /\ \E tmp \in FromDictInputs : Load("from_dict", tmp, "given")
    /\ UNCHANGED fs

\* self = TrainingParam.from_dict(self.to_dict())
FromDictOfToDict ==
    /\ res.op = "to_dict"
    /\ Load("from_dict", res.val, "to_dict")
    /\ UNCHANGED fs

\* self.initial_epsilon = v or self.final_epsilon = v: both are plain
\* attributes, nothing else is updated
AssignEpsilon ==
    \E a \in {"initial_epsilon", "final_epsilon"}, v \in AssignedValues :
        /\ self' = [self EXCEPT ![a] = v]
        /\ res' = Result("setattr", a, NoneVal, "none")
        /\ assigned' = TRUE
        /\ UNCHANGED <<fs, s_last>>

\* self.save_as_json(path, name)
SaveAsJson ==
    \E path \in Paths, name \in FileNames \cup {"None"} :
        LET file == IF name = "None" THEN DefaultName ELSE name
            err  == save_error(path)
        IN  /\ res' = Result("save_as_json", [path |-> path, file |-> file],
                             NoneVal, err)
            /\ fs' = IF err = "none"
                     THEN [fs EXCEPT ![file] = JsonDump(to_dict(self))]
                     ELSE fs
            /\ UNCHANGED <<self, s_last, assigned>>

\* self = TrainingParam.from_json(json_path), for a file of "out", for
\* "notes.txt" (no json) and for a path where nothing exists
FromJson ==
    \/ \E file \in FileNames :
          /\ fs[file] # Absent
          /\ Load("from_json", JsonLoad(fs[file]), file)
          /\ UNCHANGED fs
    \/ \E file \in FileNames :
          /\ fs[file] = Absent
          /\ res' = Result("from_json", file, NoneVal, "FileNotFoundError")
          /\ UNCHANGED <<self, fs, s_last, assigned>>
    \/ /\ res' = Result("from_json", "notes.txt", NoneVal, "JSONDecodeError")
       /\ UNCHANGED <<self, fs, s_last, assigned>>

Next ==
    \/ TellStep
    \/ GetNextEpsilon
    \/ DoTrain
    \/ ToDict
    \/ FromDict
    \/ FromDictOfToDict
    \/ AssignEpsilon

Spec == Init /\ [][Next]_vars

\* the objects whose saving and loading is followed
FileCtorInputs ==
    {EmptyKw, [step_for_final_epsilon |-> F(5, 2)], [buffer_size |-> I(3)]}

InitFile ==
    \E kw \in FileCtorInputs :
        /\ self = TrainingParam(kw)
        /\ res = Result("__init__", kw, NoneVal, "none")
        /\ fs = NoFiles
        /\ s_last = [called |-> FALSE, value |-> 0]
        /\ assigned = FALSE

NextFile ==
    \/ TellStep
    \/ SaveAsJson
    \/ FromJson

SpecFile == InitFile /\ [][NextFile]_vars

---------------------------------------------------------------------------
(* The fields of the specification's data model.                           *)

\* the fields the data model declares integer and persisted
IntegerFields ==
    {"buffer_size", "minibatch_size", "update_freq", "min_observation",
     "num_frames", "min_iter", "max_iter", "update_tensorboard_freq",
     "save_model_each"}

\* the fields the data model declares float
FloatFields ==
    {"final_epsilon", "initial_epsilon", "step_for_final_epsilon", "lr",
     "lr_decay_steps", "lr_decay_rate", "discount_factor", "tau"}

\* every field holds a value of its declared type
ValidObject(obj) ==
    /\ \A k \in IntegerFields : obj[k].ty = "int"
    /\ \A k \in FloatFields : IsNum(obj[k])

\* the argument of the last tell_step / get_next_epsilon call, 0 when
\* neither was called since the object was built
LastArgument == IF s_last.called THEN s_last.value ELSE 0

\* v <= w for two values get_next_epsilon returns on one object: numbers,
\* or c * r^x with the same c > 0 and r > 0; a number is c * r^0 or c * r^-1
Exponent(v, c, r) ==
    IF v.ty = "pow" THEN [n |-> v.xn, d |-> v.xd, ok |-> TRUE]
    ELSE IF NumEq(v, c) THEN [n |-> 0, d |-> 1, ok |-> TRUE]
    ELSE IF NumEq(PyMul(v, r), c) THEN [n |-> -1, d |-> 1, ok |-> TRUE]
    ELSE [n |-> 0, d |-> 1, ok |-> FALSE]

RealLeq(v, w) ==
    IF IsNum(v) /\ IsNum(w) THEN NumLeq(v, w)
    ELSE LET p == IF v.ty = "pow" THEN v ELSE w
         IN /\ p.ty = "pow"
            /\ (v.ty = "pow" /\ w.ty = "pow") =>
                   (v.c = w.c /\ v.rn = w.rn /\ v.rd = w.rd)
            /\ p.c.n > 0 /\ p.rn > 0
            /\ LET r  == F(p.rn, p.rd)
                   xv == Exponent(v, p.c, r)
                   xw == Exponent(w, p.c, r)
               IN  /\ xv.ok /\ xw.ok
                   /\ \/ p.rn = p.rd
                      \/ p.rn > p.rd /\ NumLeq(xv, xw)
                      \/ p.rn < p.rd /\ NumLeq(xw, xv)

---------------------------------------------------------------------------
(* C1.  Round trip.                                                        *)

\* C1: when from_dict is applied to the mapping to_dict made of a valid
\* object p, no error is raised and every persisted field of the result
\* equals that of p: integer fields exactly, float fields in value.
C1_RoundTrip ==
    [][ ( /\ res'.op = "from_dict"
          /\ res'.arg.src = "to_dict"
          /\ ValidObject(self) )
        => /\ res'.err = "none"
           /\ \A k \in IntegerFields : self'[k] = self[k]
           /\ \A k \in FloatFields : NumEq(self'[k], self[k]) ]_vars

---------------------------------------------------------------------------
(* C2.  What to_dict leaves out.                                           *)

\* C2 as stated: the mapping to_dict returns contains neither last_step
\* nor max_iter_fun.
C2_LastStepExcluded ==
    res.op = "to_dict" =>
        /\ "last_step" \notin DOMAIN res.val
        /\ "max_iter_fun" \notin DOMAIN res.val

\* C2 amended: the mapping to_dict returns never contains max_iter_fun (nor
\* _exp_facto), and it does contain last_step, with the value
\* int(last_step) of the cursor.
C2_LastStepPersisted ==
    res.op = "to_dict" =>
        /\ "max_iter_fun" \notin DOMAIN res.val
        /\ "_exp_facto" \notin DOMAIN res.val
        /\ "last_step" \in DOMAIN res.val
        /\ res.val["last_step"] = PyInt(self.last_step)

\* to_dict was called after the cursor was moved to a step > 0
C2_Witness ==
    /\ res.op = "to_dict"
    /\ s_last.called
    /\ s_last.value > 0
    /\ self.last_step.n > 0

---------------------------------------------------------------------------
(* C3.  The decay coefficient.                                             *)

\* C3: in every reachable state _exp_facto is ln(initial_epsilon /
\* final_epsilon) when final_epsilon > 0, and 1 otherwise.
C3_ExpFactoInvariant ==
    /\ self.final_epsilon.n > 0 =>
           self._exp_facto =
               NpLog(PyDiv(self.initial_epsilon, self.final_epsilon))
    /\ self.final_epsilon.n <= 0 =>
           (IsNum(self._exp_facto) /\ NumEq(self._exp_facto, I(1)))

---------------------------------------------------------------------------
(* C4.  do_train and the cursor.                                           *)

\* C4 as stated: with update_freq # 0, do_train returns true exactly when
\* s_last mod update_freq = 0, s_last being the argument of the last
\* tell_step / get_next_epsilon call and 0 when there was none; last_step
\* is not changed.
C4_DoTrainLastArgument ==
    (res.op = "do_train" /\ self.update_freq.n # 0) =>
        /\ res.err = "none"
        /\ res.val = PyBool(
               (LastArgument * self.update_freq.d)
                   % Abs(self.update_freq.n) = 0)
        /\ self.last_step = I(LastArgument)

\* C4 amended: with update_freq # 0, do_train returns true exactly when
\* s mod update_freq = 0, s being the argument of the last tell_step /
\* get_next_epsilon call on the object or, when there was none, the
\* last_step the object was built with (0 by the constructor, the
\* last_step entry of the mapping by from_dict); last_step is not changed.
C4_DoTrainCursor ==
    (res.op = "do_train" /\ self.update_freq.n # 0) =>
        /\ res.err = "none"
        /\ res.val = PyBool(
               (s_last.value * self.update_freq.d)
                   % Abs(self.update_freq.n) = 0)
        /\ self.last_step = I(s_last.value)

\* do_train answered false on an object loaded with last_step = 3 and
\* update_freq = 2, on which no step was told
C4_Witness ==
    /\ res.op = "do_train"
    /\ ~s_last.called
    /\ s_last.value = 3
    /\ self.update_freq = I(2)
    /\ res.val = PyFalse

---------------------------------------------------------------------------
(* C5.  do_train with update_freq = 0.                                     *)

\* C5: with update_freq = 0, do_train fails with InvalidConfiguration, not
\* with a division fault.
C5_InvalidConfiguration ==
    (res.op = "do_train" /\ self.update_freq.n = 0) =>
        res.err = "InvalidConfiguration"

---------------------------------------------------------------------------
(* C6.  from_dict of a mapping without a recognized key.                   *)

\* C6: from_dict of a mapping that holds no recognized field name raises
\* nothing and returns an object equal, field by field, to
\* TrainingParam().
C6_UnrecognizedKeysGiveDefaults ==
    ( /\ res.op = "from_dict"
      /\ DOMAIN res.arg.tmp \cap (IntegerFields \cup FloatFields
                                   \cup {"last_step"}) = {} )
    => /\ res.err = "none"
       /\ self = TrainingParam(EmptyKw)

\* from_dict was called with {"unknown_field": "abc"}
C6_Witness ==
    /\ res.op = "from_dict"
    /\ res.arg.tmp = [unknown_field |-> NotANumber]
    /\ res.err = "none"

---------------------------------------------------------------------------
(* C7.  get_next_epsilon past step_for_final_epsilon.                      *)

\* C7: get_next_epsilon(current_step) with current_step >
\* step_for_final_epsilon returns final_epsilon itself and leaves
\* last_step = current_step.
C7_FinalEpsilonPastTheEnd ==
    ( /\ res.op = "get_next_epsilon"
      /\ NumLt(self.step_for_final_epsilon, res.arg) )
    => /\ res.err = "none"
       /\ res.val = self.final_epsilon
       /\ self.last_step = res.arg

\* get_next_epsilon was called past the end on an object whose
\* _exp_facto is stale and whose step_for_final_epsilon is not 0
C7_Witness ==
    /\ res.op = "get_next_epsilon"
    /\ NumLt(self.step_for_final_epsilon, res.arg)
    /\ self.step_for_final_epsilon.n > 0
    /\ assigned

---------------------------------------------------------------------------
(* C8.  The shape of the decay.                                            *)

C8_Pre ==
    /\ ~assigned
    /\ self.final_epsilon.n > 0
    /\ NumLt(self.final_epsilon, self.initial_epsilon)
    /\ self.step_for_final_epsilon.n > 0

C8_Value(step) == get_next_epsilon(self, step).val

\* C8: on an object built by the constructor or by from_dict with
\* initial_epsilon > final_epsilon > 0 and step_for_final_epsilon > 0,
\* get_next_epsilon(0) is initial_epsilon, get_next_epsilon(
\* step_for_final_epsilon) is final_epsilon, and get_next_epsilon is
\* non-increasing over the steps of [0, step_for_final_epsilon].
C8_DecayShape ==
    C8_Pre =>
        LET S == self.step_for_final_epsilon
            inside == {I(s) : s \in {t \in Steps : NumLeq(I(t), S)}} \cup {S}
        IN  /\ C8_Value(I(0)) = self.initial_epsilon
            /\ C8_Value(S) = self.final_epsilon
            /\ \A a \in inside, b \in inside :
                   NumLeq(a, b) => RealLeq(C8_Value(b), C8_Value(a))

\* get_next_epsilon returned a value strictly inside the decay
C8_Witness ==
    /\ C8_Pre
    /\ res.op = "get_next_epsilon"
    /\ res.val.ty = "pow"
    /\ self.step_for_final_epsilon.n = 2

---------------------------------------------------------------------------
(* C9.  save_as_json.                                                      *)

\* C9: save_as_json(path, name) raises the directory-not-found error
\* (RuntimeError) when nothing exists at path and NotADirectoryError when
\* path is no directory, and then no file changes; otherwise it writes
\* to_dict() to path/name.
C9_SaveAsJson ==
    [][ res'.op = "save_as_json" =>
          LET path == res'.arg.path
              file == res'.arg.file
          IN  /\ ~Exists(path) =>
                    (res'.err = "RuntimeError" /\ fs' = fs)
              /\ (Exists(path) /\ ~IsDir(path)) =>
                    (res'.err = "NotADirectoryError" /\ fs' = fs)
              /\ IsDir(path) =>
                    /\ res'.err = "none"
                    /\ JsonLoad(fs'[file]) = to_dict(self)
                    /\ \A g \in FileNames \ {file} : fs'[g] = fs[g] ]_vars

\* save_as_json failed on a path that is no directory while a saved file
\* exists
C9_Witness ==
    /\ res.op = "save_as_json"
    /\ res.err = "NotADirectoryError"
    /\ fs[DefaultName] # Absent

---------------------------------------------------------------------------
(* C10.  Coercion by the constructor.                                      *)

\* C10: after construction every integer-declared field holds an int,
\* every float-declared field a float, and last_step is 0.
C10_ConstructorCoerces ==
    res.op = "__init__" =>
        /\ \A k \in IntegerFields : self[k].ty = "int"
        /\ \A k \in FloatFields : self[k].ty = "float"
        /\ self.last_step = I(0)

=============================================================================
